---- MODULE Spec2Model ----
(***************************************************************************)
(* Habit-motivation chatbot: the SQLite-backed check-in store and streak  *)
(* calculator (database.py), and the command-line session (chatbot.py).   *)
(*                                                                         *)
(* Dates are day numbers; a stored checkin_date is the ISO text written   *)
(* by date.isoformat(), kept here as the triple <<year, month, day>>,      *)
(* whose lexicographic order is the order of the zero-padded text.         *)
(***************************************************************************)
EXTENDS Integers, Sequences, FiniteSets, TLC

\* ---- bounds of the model ----
MaxDate == 1       \* calendar days 0..MaxDate
MaxRows == 3       \* rows of the progress table
MaxHabits == 1     \* rows of the habits table a session may create

Dates == 0..MaxDate
\* habit ids a caller of the database module may pass
HabitIds == 1..2
UserNames == {"ann"}
HabitNames == {"run"}

VARIABLES
    users,      \* users table: sequence of names, id = position (AUTOINCREMENT)
    habits,     \* habits table: sequence of rows, id = position
    progress,   \* progress table: sequence of rows, id = position
    clock,      \* the wall-clock day, what date.today() returns
    op,         \* the last function called (database.*, get_motivational_message)
    arg,        \* its argument: a habit_id or user_id; for the message, its inputs
    ret,        \* what it returned (or the error it raised)
    today_read, \* the day that call read from date.today(), -1 if it read none
    pc,             \* where the chatbot session stands ("off": no session)
    bot_user_id,    \* start_bot's user_id
    current_habit,  \* _current_habit[0], 0 for None
    bot_completed,  \* daily_checkin's completed
    bot_streak,     \* daily_checkin's streak
    exit_reason     \* why the process ended

dbvars == <<users, habits, progress>>
callvars == <<op, arg, ret, today_read>>
botvars == <<pc, bot_user_id, current_habit, bot_completed, bot_streak, exit_reason>>
vars == <<users, habits, progress, clock, op, arg, ret, today_read,
          pc, bot_user_id, current_habit, bot_completed, bot_streak, exit_reason>>

\* ---------------------------------------------------------------------------
\* date.isoformat() / datetime.strptime(.., "%Y-%m-%d").date()
\* Day 0 is 2025-01-31, so the modelled days cross a month boundary.
isoformat(d) ==
    LET n == d + 31
    IN  IF n <= 31 THEN <<2025, 1, n>> ELSE <<2025, 2, n - 31>>

strptime(s) == IF s[2] = 1 THEN s[3] - 31 ELSE s[3]

\* SQLite's comparison of two TEXT values (BINARY collation)
TextLess(a, b) ==
    \/ a[1] < b[1]
    \/ a[1] = b[1] /\ a[2] < b[2]
    \/ a[1] = b[1] /\ a[2] = b[2] /\ a[3] < b[3]

\* date.today()
today_ == clock

\* ---------------------------------------------------------------------------
\* _get_connection: a fresh connection; foreign_keys is a per-connection
\* pragma, off unless the connection turns it on, and no connection that
\* reads or writes rows does.
_get_connection == [foreign_keys |-> FALSE]

\* initialize_db: turns the pragma on for its own connection and creates the
\* tables if they are missing; the tables' contents are untouched.
initialize_db(db) == db

HabitExists(hs, habit_id) == habit_id \in 1..Len(hs)

\* add_user: insert, or on the UNIQUE violation return the existing id
UserIdOf(us, name) == CHOOSE i \in 1..Len(us) : us[i] = name

get_user_id(us, name) ==
    IF \E i \in 1..Len(us) : us[i] = name THEN UserIdOf(us, name) ELSE 0

add_user(us, name) ==
    IF \E i \in 1..Len(us) : us[i] = name
    THEN [users |-> us, id |-> UserIdOf(us, name)]
    ELSE [users |-> Append(us, name), id |-> Len(us) + 1]

\* add_habit: one new row, start_date = today
add_habit(hs, user_id, habit_name, today) ==
    [habits |-> Append(hs, [user_id |-> user_id, name |-> habit_name,
                            start_date |-> isoformat(today)]),
     id |-> Len(hs) + 1]

\* get_habits: the ids of the user's habits, ORDER BY id
RECURSIVE HabitsOf(_, _, _)
HabitsOf(hs, user_id, i) ==
    IF i > Len(hs) THEN <<>>
    ELSE (IF hs[i].user_id = user_id THEN <<i>> ELSE <<>>)
         \o HabitsOf(hs, user_id, i + 1)

get_habits(hs, user_id) == HabitsOf(hs, user_id, 1)

\* log_checkin: INSERT INTO progress; the row is refused only when the
\* connection enforces foreign keys and the habit is missing.
int_bool(completed) == IF completed THEN 1 ELSE 0

\* A log_checkin that overwrites the row the habit already has for that date
log_checkin_replacing(pr, hs, habit_id, completed, checkin_date) ==
    LET row == [habit_id |-> habit_id, checkin_date |-> isoformat(checkin_date),
                completed |-> int_bool(completed)]
        same(i) == pr[i].habit_id = habit_id /\ pr[i].checkin_date = row.checkin_date
    IN  IF \E i \in 1..Len(pr) : same(i)
        THEN [progress |-> [i \in 1..Len(pr) |-> IF same(i) THEN row ELSE pr[i]],
              raised |-> "none"]
        ELSE [progress |-> Append(pr, row), raised |-> "none"]

log_checkin(pr, hs, habit_id, completed, checkin_date) ==
    IF _get_connection.foreign_keys /\ ~HabitExists(hs, habit_id)
    THEN [progress |-> pr, raised |-> "IntegrityError"]
    ELSE [progress |-> Append(pr, [habit_id |-> habit_id,
                                   checkin_date |-> isoformat(checkin_date),
                                   completed |-> int_bool(completed)]),
          raised |-> "none"]

\* _get_completed_dates:
\*   SELECT checkin_date FROM progress WHERE habit_id = ? AND completed = 1
\*   ORDER BY checkin_date DESC, each text parsed back to a date
RECURSIVE SelectCompleted(_, _, _)
SelectCompleted(pr, habit_id, i) ==
    IF i > Len(pr) THEN <<>>
    ELSE (IF pr[i].habit_id = habit_id /\ pr[i].completed = 1
          THEN <<pr[i].checkin_date>> ELSE <<>>)
         \o SelectCompleted(pr, habit_id, i + 1)

RECURSIVE InsertDesc(_, _)
InsertDesc(x, s) ==
    IF s = <<>> THEN <<x>>
    ELSE IF TextLess(Head(s), x) THEN <<x>> \o s
    ELSE <<Head(s)>> \o InsertDesc(x, Tail(s))

RECURSIVE OrderByDesc(_)
OrderByDesc(s) == IF s = <<>> THEN <<>> ELSE InsertDesc(Head(s), OrderByDesc(Tail(s)))

_get_completed_dates(pr, habit_id) ==
    LET rows == OrderByDesc(SelectCompleted(pr, habit_id, 1))
    IN  [i \in 1..Len(rows) |-> strptime(rows[i])]

\* get_streak: walk the descending dates; the i-th (0-based) must be today - i
RECURSIVE StreakLoop(_, _, _)
StreakLoop(completed_dates, today, i) ==
    IF i >= Len(completed_dates) THEN 0
    ELSE IF completed_dates[i + 1] = today - i
         THEN 1 + StreakLoop(completed_dates, today, i + 1)
         ELSE 0

\* A get_streak that counts back from the latest completed day instead of today
get_streak_from_latest(pr, habit_id, today) ==
    LET completed_dates == _get_completed_dates(pr, habit_id)
    IN  IF completed_dates = <<>> THEN 0
        ELSE StreakLoop(completed_dates, completed_dates[1], 0)

get_streak(pr, habit_id, today) ==
    LET completed_dates == _get_completed_dates(pr, habit_id)
    IN  IF completed_dates = <<>> THEN 0
        ELSE StreakLoop(completed_dates, today, 0)

\* ---------------------------------------------------------------------------
\* ---------------------------------------------------------------------------
\* utils.QUOTES and get_random_quote: random.choice picks the q-th quote
QUOTES == <<
    "Every journey begins with a single step.",
    "Success is the sum of small efforts, repeated day in and day out.",
    "Don't watch the clock; do what it does. Keep going.",
    "The secret of getting ahead is getting started.",
    "Keep pushing forward - your hard work will pay off.",
    "Discipline is choosing between what you want now and what you want most.",
    "Little by little, a little becomes a lot." >>

get_random_quote(q) == QUOTES[q]

\* get_motivational_message: api_key is whether OPENAI_API_KEY is set, llm is
\* what the ChatOpenAI call does ("reply" or "raise"); the result is the value
\* returned, or the exception that leaves the function.
\* A get_motivational_message without its try/except
get_motivational_message_unguarded(api_key, llm, q) ==
    IF ~api_key THEN [raised |-> FALSE, value |-> get_random_quote(q)]
    ELSE IF llm = "raise" THEN [raised |-> TRUE, value |-> "Exception"]
    ELSE [raised |-> FALSE, value |-> "<llm reply>"]

get_motivational_message(api_key, llm, q) ==
    IF ~api_key THEN [raised |-> FALSE, value |-> get_random_quote(q)]
    ELSE IF llm = "raise" THEN [raised |-> FALSE, value |-> get_random_quote(q)]
    ELSE [raised |-> FALSE, value |-> "<llm reply>"]

\* ---------------------------------------------------------------------------
\* utils.get_milestone_message: the streaks that are celebrated, and the text
\* of the f-string (its leading emoji left out)
MILESTONES == {3, 7, 10}

\* A get_milestone_message that celebrates every streak from the first milestone on
get_milestone_message_from_first(streak_) ==
    IF streak_ >= 3
    THEN "You've hit a " \o ToString(streak_) \o "-day streak! Amazing discipline!"
    ELSE ""

get_milestone_message(streak_) ==
    IF streak_ \in MILESTONES
    THEN "You've hit a " \o ToString(streak_) \o "-day streak! Amazing discipline!"
    ELSE ""

\* chatbot.celebrate_milestone
celebrate_milestone(streak_) == get_milestone_message(streak_)

\* a progress row
Row(habit_id, d, completed) ==
    [habit_id |-> habit_id, checkin_date |-> isoformat(d), completed |-> completed]

NoSession ==
    /\ pc = "off"
    /\ bot_user_id = 0
    /\ current_habit = 0
    /\ bot_completed = FALSE
    /\ bot_streak = 0
    /\ exit_reason = "none"

\* The database module called directly, on a database that already holds one
\* user and the habit that user created on day 0 (habit id 1; no habit 2).
Init ==
    /\ users = add_user(<<>>, "ann").users
    /\ habits = add_habit(<<>>, 1, "run", 0).habits
    /\ progress = <<>>
    /\ clock = 0
    /\ op = "none"
    /\ arg = 0
    /\ ret = 0
    /\ today_read = -1
    /\ NoSession

\* log_checkin(habit_id, completed, checkin_date), checkin_date given or None
LogCheckin ==
    \E habit_id \in HabitIds, completed \in BOOLEAN, given \in Dates \cup {-1} :
        /\ Len(progress) < MaxRows
        /\ LET checkin_date == IF given = -1 THEN today_ ELSE given
               r == log_checkin(progress, habits, habit_id, completed, checkin_date)
           IN  /\ progress' = r.progress
               /\ op' = "log_checkin" /\ arg' = habit_id /\ ret' = r.raised
               /\ today_read' = IF given = -1 THEN today_ ELSE -1
        /\ UNCHANGED <<users, habits, clock>>
        /\ UNCHANGED botvars

GetCompletedDates ==
    \E habit_id \in HabitIds :
        /\ op' = "completed_dates" /\ arg' = habit_id
        /\ ret' = _get_completed_dates(progress, habit_id)
        /\ today_read' = -1
        /\ UNCHANGED <<users, habits, progress, clock>>
        /\ UNCHANGED botvars

GetStreak ==
    \E habit_id \in HabitIds :
        /\ op' = "get_streak" /\ arg' = habit_id
        /\ ret' = get_streak(progress, habit_id, today_)
        /\ today_read' = today_
        /\ UNCHANGED <<users, habits, progress, clock>>
        /\ UNCHANGED botvars

\* midnight passes
Tick ==
    /\ clock < MaxDate
    /\ clock' = clock + 1
    /\ UNCHANGED <<users, habits, progress, op, arg, ret, today_read>>
    /\ UNCHANGED botvars

Next ==
    \/ LogCheckin
    \/ GetCompletedDates
    \/ GetStreak
    \/ Tick

Spec == Init /\ [][Next]_vars

\* ---------------------------------------------------------------------------
\* get_streak as a function of the history and the day it reads: the history
\* is any one check-in per day for habit 1 over days 0..ScenarioDays, the wall
\* clock stands at any of those days.
ScenarioDays == 4

DailyHistory(f) == [i \in 1..(ScenarioDays + 1) |-> Row(1, i - 1, f[i - 1])]

InitScenario ==
    /\ users = add_user(<<>>, "ann").users
    /\ habits = add_habit(<<>>, 1, "run", 0).habits
    /\ progress \in {DailyHistory(f) : f \in [0..ScenarioDays -> {0, 1}]}
    /\ clock \in 0..ScenarioDays
    /\ op = "none"
    /\ arg = 0
    /\ ret = 0
    /\ today_read = -1
    /\ NoSession

NextScenario ==
    \/ GetCompletedDates
    \/ GetStreak

SpecScenario == InitScenario /\ [][NextScenario]_vars

\* ---------------------------------------------------------------------------
\* The chatbot process: python chatbot.py, on a database file that outlives it.
\* Any database call may raise sqlite3.Error (fail); nothing in start_bot or
\* under __main__ catches it, so it ends the process.
InitBot ==
    /\ users = <<>>
    /\ habits = <<>>
    /\ progress = <<>>
    /\ clock = 0
    /\ op = "none"
    /\ arg = 0
    /\ ret = 0
    /\ today_read = -1
    /\ pc = "start"
    /\ bot_user_id = 0
    /\ current_habit = 0
    /\ bot_completed = FALSE
    /\ bot_streak = 0
    /\ exit_reason = "none"

\* an exception of function fn reaches the top of the process
Uncaught(fn, exc) ==
    /\ pc' = "terminated"
    /\ exit_reason' = "error"
    /\ op' = fn /\ arg' = 0 /\ ret' = exc /\ today_read' = -1
    /\ UNCHANGED <<users, habits, progress, clock>>
    /\ UNCHANGED <<bot_user_id, current_habit, bot_completed, bot_streak>>

\* start_bot up to the main loop: load_user_data, the name, get_user_id/add_user
BotStart ==
    /\ pc = "start"
    /\ \E name \in UserNames, fail \in BOOLEAN :
        IF fail THEN Uncaught("get_user_id", "sqlite3.Error")
        ELSE LET db == initialize_db(dbvars)
                 found == get_user_id(db[1], name)
                 r == add_user(db[1], name)
             IN  /\ users' = IF found = 0 THEN r.users ELSE db[1]
                 /\ bot_user_id' = IF found = 0 THEN r.id ELSE found
                 /\ op' = IF found = 0 THEN "add_user" ELSE "get_user_id"
                 /\ arg' = 0
                 /\ ret' = bot_user_id'
                 /\ today_read' = -1
                 /\ pc' = "menu"
                 /\ UNCHANGED <<habits, progress, clock>>
                 /\ UNCHANGED <<current_habit, bot_completed, bot_streak, exit_reason>>

\* choice 1: select_habit, picking a listed habit or adding a new one
ChooseSelectHabit ==
    /\ pc = "menu"
    /\ \E fail \in BOOLEAN, habit_name \in HabitNames, selection \in 1..(MaxHabits + 1) :
        IF fail THEN Uncaught("get_habits", "sqlite3.Error")
        ELSE LET listed == get_habits(habits, bot_user_id)
                 r == add_habit(habits, bot_user_id, habit_name, today_)
             IN  /\ selection <= Len(listed) + 1
                 /\ selection = Len(listed) + 1 => Len(habits) < MaxHabits
                 /\ IF selection <= Len(listed)
                    THEN /\ current_habit' = listed[selection]
                         /\ habits' = habits
                         /\ op' = "get_habits" /\ arg' = bot_user_id /\ ret' = listed
                         /\ today_read' = -1
                    ELSE /\ current_habit' = r.id
                         /\ habits' = r.habits
                         /\ op' = "add_habit" /\ arg' = bot_user_id /\ ret' = r.id
                         /\ today_read' = today_
                 /\ UNCHANGED <<users, progress, clock>>
                 /\ UNCHANGED <<pc, bot_user_id, bot_completed, bot_streak, exit_reason>>

\* choice 2 up to the commit of log_checkin: the habit must be selected and
\* still listed; daily_checkin asks yes/no and records the answer for today
ChooseLogProgress ==
    /\ pc = "menu"
    /\ \E fail \in BOOLEAN, answer \in BOOLEAN :
        IF current_habit = 0
        THEN UNCHANGED vars
        ELSE IF fail THEN Uncaught("log_checkin", "sqlite3.Error")
        ELSE LET listed == get_habits(habits, bot_user_id)
                 r == log_checkin(progress, habits, current_habit, answer, today_)
             IN  IF \A i \in 1..Len(listed) : listed[i] # current_habit
                 THEN /\ current_habit' = 0
                      /\ op' = "get_habits" /\ arg' = bot_user_id /\ ret' = listed
                      /\ today_read' = -1
                      /\ UNCHANGED <<users, habits, progress, clock>>
                      /\ UNCHANGED <<pc, bot_user_id, bot_completed, bot_streak, exit_reason>>
                 ELSE /\ Len(progress) < MaxRows
                      /\ progress' = r.progress
                      /\ bot_completed' = answer
                      /\ op' = "log_checkin" /\ arg' = current_habit /\ ret' = r.raised
                      /\ today_read' = today_
                      /\ pc' = IF r.raised = "none" THEN "checkin_logged" ELSE "terminated"
                      /\ exit_reason' = IF r.raised = "none" THEN exit_reason ELSE "error"
                      /\ UNCHANGED <<users, habits, clock>>
                      /\ UNCHANGED <<bot_user_id, current_habit, bot_streak>>

\* daily_checkin: streak = get_streak(habit_id) if completed else 0
DailyCheckinStreak ==
    /\ pc = "checkin_logged"
    /\ \E fail \in BOOLEAN :
        IF bot_completed
        THEN IF fail THEN Uncaught("get_streak", "sqlite3.Error")
             ELSE /\ bot_streak' = get_streak(progress, current_habit, today_)
                  /\ op' = "get_streak" /\ arg' = current_habit /\ ret' = bot_streak'
                  /\ today_read' = today_
                  /\ pc' = "checkin_streak"
                  /\ UNCHANGED <<users, habits, progress, clock>>
                  /\ UNCHANGED <<bot_user_id, current_habit, bot_completed, exit_reason>>
        ELSE /\ bot_streak' = 0
             /\ pc' = "checkin_streak"
             /\ UNCHANGED <<users, habits, progress, clock, op, arg, ret, today_read>>
             /\ UNCHANGED <<bot_user_id, current_habit, bot_completed, exit_reason>>

\* daily_checkin: message = get_motivational_message(...), printed; back to the menu
DailyCheckinMotivate ==
    /\ pc = "checkin_streak"
    /\ \E api_key \in BOOLEAN, llm \in {"reply", "raise"}, q \in 1..Len(QUOTES) :
        LET r == get_motivational_message(api_key, llm, q)
        IN  /\ op' = "get_motivational_message"
            /\ arg' = [api_key |-> api_key,
                       llm |-> IF api_key THEN llm ELSE "not called"]
            /\ ret' = r
            /\ today_read' = -1
            /\ pc' = IF r.raised THEN "terminated" ELSE "menu"
            /\ exit_reason' = IF r.raised THEN "error" ELSE exit_reason
            /\ UNCHANGED <<users, habits, progress, clock>>
            /\ UNCHANGED <<bot_user_id, current_habit, bot_completed, bot_streak>>

\* choice 3: get_streak of every habit of the user
RECURSIVE StreaksOf(_, _)
StreaksOf(listed, i) ==
    IF i > Len(listed) THEN <<>>
    ELSE <<get_streak(progress, listed[i], today_)>> \o StreaksOf(listed, i + 1)

ChooseShowStreaks ==
    /\ pc = "menu"
    /\ \E fail \in BOOLEAN :
        IF fail THEN Uncaught("get_streak", "sqlite3.Error")
        ELSE LET listed == get_habits(habits, bot_user_id)
             IN  /\ IF listed = <<>>
                    THEN /\ op' = "get_habits" /\ arg' = bot_user_id /\ ret' = listed
                         /\ today_read' = -1
                    ELSE /\ op' = "get_streak" /\ arg' = listed[Len(listed)]
                         /\ ret' = StreaksOf(listed, 1)[Len(listed)]
                         /\ today_read' = today_
                 /\ UNCHANGED <<users, habits, progress, clock>>
                 /\ UNCHANGED botvars

\* choice 4
ChooseExit ==
    /\ pc = "menu"
    /\ pc' = "terminated"
    /\ exit_reason' = "exit"
    /\ UNCHANGED <<users, habits, progress, clock, op, arg, ret, today_read>>
    /\ UNCHANGED <<bot_user_id, current_habit, bot_completed, bot_streak>>

\* any other choice: "Invalid choice", the menu again
ChooseInvalid ==
    /\ pc = "menu"
    /\ UNCHANGED vars

\* Ctrl-C: KeyboardInterrupt, caught under __main__
Interrupt ==
    /\ pc \in {"start", "menu", "checkin_logged", "checkin_streak"}
    /\ pc' = "terminated"
    /\ exit_reason' = "interrupt"
    /\ UNCHANGED <<users, habits, progress, clock, op, arg, ret, today_read>>
    /\ UNCHANGED <<bot_user_id, current_habit, bot_completed, bot_streak>>

\* the program is run again: module state is fresh, habits.db is as it was left
Relaunch ==
    /\ pc = "terminated"
    /\ pc' = "start"
    /\ bot_user_id' = 0
    /\ current_habit' = 0
    /\ bot_completed' = FALSE
    /\ bot_streak' = 0
    /\ exit_reason' = "none"
    /\ op' = "none" /\ arg' = 0 /\ ret' = 0 /\ today_read' = -1
    /\ UNCHANGED <<users, habits, progress, clock>>

NextBot ==
    \/ BotStart
    \/ ChooseSelectHabit
    \/ ChooseLogProgress
    \/ DailyCheckinStreak
    \/ DailyCheckinMotivate
    \/ ChooseShowStreaks
    \/ ChooseExit
    \/ ChooseInvalid
    \/ Interrupt
    \/ Relaunch
    \/ Tick

SpecBot == InitBot /\ [][NextBot]_vars

\* ---------------------------------------------------------------------------
\* The milestone text as a function of the streak: any integer streak in
\* -MaxStreak..MaxStreak, asked of utils directly or through the chatbot.
MaxStreak == 30

InitMilestone ==
    /\ users = <<>>
    /\ habits = <<>>
    /\ progress = <<>>
    /\ clock = 0
    /\ op = "none"
    /\ arg = 0
    /\ ret = 0
    /\ today_read = -1
    /\ NoSession

GetMilestoneMessage ==
    \E streak_ \in (0 - MaxStreak)..MaxStreak :
        /\ op' = "get_milestone_message" /\ arg' = streak_
        /\ ret' = get_milestone_message(streak_)
        /\ UNCHANGED <<users, habits, progress, clock, today_read>>
        /\ UNCHANGED botvars

CelebrateMilestone ==
    \E streak_ \in (0 - MaxStreak)..MaxStreak :
        /\ op' = "celebrate_milestone" /\ arg' = streak_
        /\ ret' = celebrate_milestone(streak_)
        /\ UNCHANGED <<users, habits, progress, clock, today_read>>
        /\ UNCHANGED botvars

NextMilestone ==
    \/ GetMilestoneMessage
    \/ CelebrateMilestone

SpecMilestone == InitMilestone /\ [][NextMilestone]_vars

\* ---------------------------------------------------------------------------
\* Vocabulary of the properties
\* the history holds a completed record of the habit dated d
CompletedOn(pr, habit_id, d) ==
    \E i \in 1..Len(pr) : pr[i] = Row(habit_id, d, 1)

\* a history with the same completed dates of the habit, each recorded once
RECURSIVE OncePerDate(_, _, _)
OncePerDate(pr, habit_id, d) ==
    IF d > MaxDate THEN <<>>
    ELSE (IF CompletedOn(pr, habit_id, d) THEN <<Row(habit_id, d, 1)>> ELSE <<>>)
         \o OncePerDate(pr, habit_id, d + 1)

SameDay(r1, r2) == r1.habit_id = r2.habit_id /\ r1.checkin_date = r2.checkin_date

\* the history with, for every habit and date, only the most recent write
RECURSIVE LastWrites(_, _)
LastWrites(pr, i) ==
    IF i > Len(pr) THEN <<>>
    ELSE (IF \E j \in (i + 1)..Len(pr) : SameDay(pr[i], pr[j]) THEN <<>> ELSE <<pr[i]>>)
         \o LastWrites(pr, i + 1)

NoDuplicateRows(pr) ==
    \A i, j \in 1..Len(pr) : SameDay(pr[i], pr[j]) => i = j

\* C1: when the habit is completed on today, today-1, ..., today-(n-1) and not
\* on today-n, get_streak returns exactly n, whatever else the history holds.
C1_StreakIsRunLength ==
    op = "get_streak" =>
        \A n \in 1..(MaxDate + 1) :
            ( /\ \A k \in 0..(n - 1) : CompletedOn(progress, arg, today_read - k)
              /\ ~CompletedOn(progress, arg, today_read - n) )
            => ret = n

\* C2: get_streak depends only on the set of completed dates: it returns what it
\* returns on the history that records each of those dates exactly once.
C2_StreakDependsOnDateSetOnly ==
    op = "get_streak" =>
        ret = get_streak(OncePerDate(progress, arg, 0), arg, today_read)

\* C4: a second check-in for a habit and date is rejected, or the most recent
\* write for each date is the one the streak counts.
C4_LastWriteIsAuthoritative ==
    \/ NoDuplicateRows(progress)
    \/ op = "get_streak" =>
           ret = get_streak(LastWrites(progress, 1), arg, today_read)

\* C5: two get_streak calls for the same habit with the history unchanged
\* return the same result, also when the wall clock advanced in between.
C5_SameResultAcrossClock ==
    [][(op = "get_streak" /\ op' = "get_streak" /\ arg' = arg /\ progress' = progress)
        => ret' = ret]_vars

\* C6: log_checkin for a habit id that is in no habits row raises and stores
\* no row; every stored row belongs to an existing habit.
C6_MissingHabitRejected ==
    /\ (op = "log_checkin" /\ ~HabitExists(habits, arg)) => ret # "none"
    /\ \A i \in 1..Len(progress) : HabitExists(habits, progress[i].habit_id)

\* C7: with no completed record dated today, get_streak returns 0, whatever
\* completed records other dates hold.
C7_NoCompletionTodayIsZero ==
    (op = "get_streak" /\ ~CompletedOn(progress, arg, today_read)) => ret = 0

C7_Witness ==
    /\ op = "get_streak"
    /\ ~CompletedOn(progress, arg, today_read)
    /\ \E d \in Dates : d # today_read /\ CompletedOn(progress, arg, d)
    /\ ret = 0

\* C3: with completions on days 0, 1, 2, a miss on day 3 and a completion on
\* day 4, the streak as of day 4 is 1 and the streak as of day 2 is 3.
C3_History == DailyHistory([d \in 0..ScenarioDays |-> IF d = 3 THEN 0 ELSE 1])

C3_StreakAsOfReferenceDate ==
    (op = "get_streak" /\ arg = 1 /\ progress = C3_History) =>
        /\ today_read = 4 => ret = 1
        /\ today_read = 2 => ret = 3

\* C8: the check-in history is append-only: every step keeps every earlier
\* record as it was, only log_checkin adds one, and get_streak (which runs
\* _get_completed_dates) leaves the users, habits and progress tables unchanged.
C8_AppendOnly ==
    [][ /\ Len(progress') >= Len(progress)
        /\ \A i \in 1..Len(progress) : progress'[i] = progress[i]
        /\ progress' # progress =>
               (op' = "log_checkin" /\ Len(progress') = Len(progress) + 1)
        /\ (op' \in {"get_streak", "completed_dates"}) => dbvars' = dbvars
      ]_vars

C8_Witness ==
    /\ Len(users) >= 1
    /\ Len(habits) >= 1
    /\ Len(progress) >= 2
    /\ SameDay(progress[1], progress[2])
    /\ op = "get_streak"
    /\ pc = "menu"

\* C9: no error raised by get_habits, log_checkin or get_streak in the main
\* loop ends the session: the process ends only on the Exit choice or a user
\* interrupt.
C9_CoreErrorsKeepSession ==
    (pc = "terminated" /\ op \in {"get_habits", "log_checkin", "get_streak"})
        => exit_reason \in {"exit", "interrupt"}

\* C10: get_motivational_message never raises; with the API key unset or the
\* language-model call raising, it returns one of the canned quotes; and the
\* check-in daily_checkin recorded is still the last row of the history.
C10_MotivationNeverFails ==
    op = "get_motivational_message" =>
        /\ ~ret.raised
        /\ exit_reason # "error"
        /\ (~arg.api_key \/ arg.llm = "raise") =>
               \E q \in 1..Len(QUOTES) : ret.value = QUOTES[q]
        /\ Len(progress) >= 1
        /\ progress[Len(progress)].habit_id = current_habit
        /\ progress[Len(progress)].completed = int_bool(bot_completed)

C10_Witness ==
    /\ op = "get_motivational_message"
    /\ arg.api_key /\ arg.llm = "raise"
    /\ ret.value = QUOTES[1]
    /\ pc = "menu"
    /\ progress[Len(progress)] = Row(current_habit, clock, 1)

\* C11: the milestone text is non-empty exactly when the streak is 3, 7 or 10,
\* and empty for every other integer streak (0, negatives, values above 10).
C11_MilestoneExactlyAt3_7_10 ==
    op \in {"get_milestone_message", "celebrate_milestone"} =>
        (ret # "" <=> arg \in {3, 7, 10})

C11_Witness ==
    /\ op = "celebrate_milestone"
    /\ arg = 10
    /\ ret = "You've hit a 10-day streak! Amazing discipline!"

\* C12: in daily_checkin, after the user answered yes and the check-in was
\* written, the streak reported is at least 1, also when the wall-clock date
\* advances between log_checkin's read of today and get_streak's.
C12_StreakAfterYesAtLeastOne ==
    (pc = "checkin_streak" /\ bot_completed) => bot_streak >= 1

====
